---- MODULE Spec2Model ----
(***************************************************************************)
(* State-machine model of the telemetry stream client implemented by the   *)
(* React hook useTelemetryWebSocket                                        *)
(* (src/frontend/src/hooks/useTelemetryWebsocket.ts).                      *)
(*                                                                         *)
(* One hook instance is modelled.  Every browser task (a timer callback,   *)
(* a WebSocket event handler, an effect run, a call of an exposed          *)
(* function) is one atomic action; the only place where a handler yields   *)
(* to the event loop is `await parseMessage(...)` on a Blob, which is      *)
(* split into MessageEvent and ParseComplete.                              *)
(***************************************************************************)
EXTENDS Integers, FiniteSets, Sequences, TLC

(***************************************************************************)
(* Bounds of the model (not program constants).                            *)
(***************************************************************************)
\* connectionAttemptRef is unbounded in the code; connection attempts are
\* only started while it is below this bound.
MaxConnectCalls == 11
\* number of 500 ms manual-reconnect timeouts that may be pending at once
MaxManualTimers == 2
\* number of Blob decodes (await data.text()) that may be in flight at once
MaxPendingParse == 1
\* number of released sockets whose close handshake has not finished yet
MaxDetached == 1
\* number of requestAnimationFrame calls TasksPage makes
MaxAnimationRequests == 3

(***************************************************************************)
(* JavaScript values that can reach the hook as message data or as the     *)
(* telemetry state.                                                        *)
(***************************************************************************)
JNull == [k |-> "null", v |-> "null"]
JUndefined == [k |-> "undefined", v |-> "undefined"]
JStr(s) == [k |-> "str", v |-> s]
JNum(s) == [k |-> "num", v |-> s]
JBool(s) == [k |-> "bool", v |-> s]
\* a parsed JSON object: its `type` member ("absent" when it has none), its
\* `data` member (JUndefined when it has none) and a name for the rest
JObj(type, data, rest) == [k |-> "obj", type |-> type, data |-> data, rest |-> rest]
\* a Blob / an ArrayBuffer object holding the bytes of `text`
JBlob(text) == [k |-> "blob", v |-> text]
JBuffer(text) == [k |-> "buffer", v |-> text]

\* JavaScript truthiness (ToBoolean)
Truthy(x) ==
    CASE x.k = "null" -> FALSE
      [] x.k = "undefined" -> FALSE
      [] x.k = "str" -> x.v # ""
      [] x.k = "num" -> x.v # "0"
      [] x.k = "bool" -> x.v = "true"
      [] OTHER -> TRUE

\* optional member access  x?.type  (undefined on null, strings, numbers...)
TypeOf(x) == IF x.k = "obj" /\ x.type # "absent" THEN JStr(x.type) ELSE JUndefined
\* member access  x.data
DataOf(x) == IF x.k = "obj" THEN x.data ELSE JUndefined

(***************************************************************************)
(* Wire contents and JSON.parse.                                           *)
(***************************************************************************)
PayloadA == JObj("absent", JUndefined, "alt:12.5")
PayloadB == JObj("absent", JUndefined, "alt:20")

TxtPong == "pong"
TxtJsonPong == "\"pong\""
TxtEnvPong == "{\"type\":\"pong\"}"
TxtTelA == "{\"type\":\"telemetry\",\"data\":{\"alt\":12.5}}"
TxtTelB == "{\"type\":\"telemetry\",\"data\":{\"alt\":20}}"
TxtBareA == "{\"alt\":12.5}"
TxtGarbage == "not json"
TxtJsonNull == "null"
\* telemetry envelopes whose data member is falsy
TxtTelNull == "{\"type\":\"telemetry\",\"data\":null}"
TxtTelZero == "{\"type\":\"telemetry\",\"data\":0}"
TxtTelFalse == "{\"type\":\"telemetry\",\"data\":false}"
TxtTelEmpty == "{\"type\":\"telemetry\",\"data\":\"\"}"
\* an envelope of a type the hook does not know
TxtEnvStatus == "{\"type\":\"status\",\"data\":{\"alt\":12.5}}"

\* JSON.parse(text): ok = FALSE stands for a thrown SyntaxError
JSONParse(text) ==
    CASE text = TxtJsonPong -> [ok |-> TRUE, val |-> JStr("pong")]
      [] text = TxtEnvPong -> [ok |-> TRUE, val |-> JObj("pong", JUndefined, "")]
      [] text = TxtTelA -> [ok |-> TRUE, val |-> JObj("telemetry", PayloadA, "")]
      [] text = TxtTelB -> [ok |-> TRUE, val |-> JObj("telemetry", PayloadB, "")]
      [] text = TxtBareA -> [ok |-> TRUE, val |-> PayloadA]
      [] text = TxtJsonNull -> [ok |-> TRUE, val |-> JNull]
      [] text = TxtTelNull -> [ok |-> TRUE, val |-> JObj("telemetry", JNull, "")]
      [] text = TxtTelZero -> [ok |-> TRUE, val |-> JObj("telemetry", JNum("0"), "")]
      [] text = TxtTelFalse -> [ok |-> TRUE, val |-> JObj("telemetry", JBool("false"), "")]
      [] text = TxtTelEmpty -> [ok |-> TRUE, val |-> JObj("telemetry", JStr(""), "")]
      [] text = TxtEnvStatus -> [ok |-> TRUE, val |-> JObj("status", PayloadA, "")]
      [] OTHER -> [ok |-> FALSE, val |-> JUndefined]

\* event.data of a frame: a string for a text frame, a Blob or an
\* ArrayBuffer for a binary frame (depending on binaryType)
Encodings == {"string", "blob", "buffer"}
EventData(f) ==
    CASE f.enc = "string" -> JStr(f.text)
      [] f.enc = "blob" -> JBlob(f.text)
      [] f.enc = "buffer" -> JBuffer(f.text)

\* parseMessage(data): JSON.parse of the text; the catch returns `data`
parseMessage(f) ==
    LET r == JSONParse(f.text)
    IN IF r.ok THEN r.val ELSE EventData(f)

\* parseMessage is asynchronous only for a Blob (await data.text())
ParseIsDeferred(f) == f.enc = "blob"

\* the part of onmessage after `await parseMessage`: the value handed to
\* setTelemetry and onTelemetry, or "none" when the handler returns early
IsPong(msg) == msg = JStr("pong") \/ TypeOf(msg) = JStr("pong")
TelemetryDataOf(msg) ==
    IF TypeOf(msg) = JStr("telemetry") /\ Truthy(DataOf(msg)) THEN DataOf(msg) ELSE msg
Publishes(msg) == ~IsPong(msg) /\ Truthy(TelemetryDataOf(msg))

\* frames delivered by the server in the lifecycle specification
Frames ==
    { [enc |-> "string", text |-> TxtTelA],
      [enc |-> "blob", text |-> TxtTelB],
      [enc |-> "string", text |-> TxtPong],
      [enc |-> "string", text |-> TxtGarbage] }

\* every wire content of the model in every transport encoding
Texts ==
    { TxtPong, TxtJsonPong, TxtEnvPong, TxtTelA, TxtTelB, TxtBareA, TxtGarbage,
      TxtJsonNull, TxtTelNull, TxtTelZero, TxtTelFalse, TxtTelEmpty, TxtEnvStatus }
AllFrames == { [enc |-> e, text |-> t] : e \in Encodings, t \in Texts }

(***************************************************************************)
(* Program constants.                                                      *)
(***************************************************************************)
maxAttempts == 10
BaseDelay == 1000
CapDelay == 30000
NormalClosure == 1000
PolicyViolation == 1008
\* close codes the transport may report: normal, going away, abnormal,
\* policy violation
CloseCodes == {1000, 1001, 1006, 1008}
AbnormalClosure == 1006

ErrNone == "null"
ErrNotAuthenticated == "Not authenticated"
ErrConnection == "WebSocket connection error"
ErrMaxAttempts == "Max reconnection attempts reached"

\* values of getToken(): no token, or a token string
NoToken == ""
Tokens == {NoToken, "t1"}

\* tokens of the session specification: one of them needs escaping in a URL
SessionTokens == {NoToken, "t1", "a/b"}

\* encodeURIComponent(token), and the inverse the server applies to the
\* query value
encodeURIComponent(t) == IF t = "a/b" THEN "a%2Fb" ELSE t
decodeURIComponent(u) == IF u = "a%2Fb" THEN "a/b" ELSE u

Min(a, b) == IF a < b THEN a ELSE b

\* the delay without the cap of Math.min
DelayUncapped(currentAttempt) == BaseDelay * 2 ^ (currentAttempt - 1)

\* Math.min(1000 * Math.pow(2, currentAttempt - 1), 30000)
Delay(currentAttempt) == Min(BaseDelay * 2 ^ (currentAttempt - 1), CapDelay)

(***************************************************************************)
(* State.                                                                  *)
(***************************************************************************)
VARIABLES
    enabled,               \* options.enabled of the latest render
    phase,                 \* "mounted" | "unmounted" (component lifecycle)
    mountedRef,            \* mountedRef.current
    telemetry,             \* useState telemetry
    isConnected,           \* useState isConnected
    error,                 \* useState error
    reconnectAttempt,      \* useState reconnectAttempt
    wsRef,                 \* wsRef.current: the referenced WebSocket, or NoSocket
    detached,              \* sockets no longer referenced, by readyState
    shouldReconnectRef,    \* shouldReconnectRef.current
    reconnectTimerRef,     \* reconnectTimerRef.current: 0 (null) or the delay of the timeout it names
    retryPending,          \* the timeout named by reconnectTimerRef has neither fired nor been cleared
    pingIntervalRef,       \* pingIntervalRef.current is non-null
    activePings,           \* number of keepalive intervals not yet cleared
    connectionAttemptRef,  \* connectionAttemptRef.current
    initTimer,             \* the effect's 100 ms timeout: "none", or pending and set at "mount" / "enable"
    manualTimers,          \* number of pending 500 ms timeouts of manualReconnect
    manualBlocked,         \* how many of them were set while the pending 100 ms timeout was already set
    pendingParse,          \* onmessage invocations suspended at `await parseMessage`
    token,                 \* what getToken() returns now
    constructorThrows,     \* new WebSocket(wsUrl) throws for the URL this build computes
    ticking,               \* history: rendering ticks are part of this behaviour (only then are notifications counted)
    notifiedInTick,        \* history: setTelemetry/onTelemetry calls since the last rendering tick: "none", "one", "many"
    pingSentOn,            \* history: "none", or the readyState of the socket the last ping was sent on
    userDisconnected,      \* history: "yes" from a call of disconnect() until reconnect() or a toggle of enabled, else "no"; "untracked" where it is not recorded
    lastReceived,          \* history (recorded while ticking): the last frame received that is JSON carrying telemetry
    pageTelemetry,         \* TasksPage: the telemetry of its latest render
    rafRef,                \* TasksPage: rafRef.current, 0 (null) or a requestAnimationFrame id
    rafPending,            \* TasksPage: the animation-frame callbacks requested and neither run nor cancelled
    rafLastId,             \* TasksPage: the id the latest requestAnimationFrame returned
    effectCleanup,         \* TasksPage: the latest run of the telemetry effect returned its cleanup
    droneCenter,           \* TasksPage: useState droneCenter
    lastValid,             \* history: the position of the latest telemetry that carried a valid one
    lastNotify,            \* history: the message event whose handler set the current telemetry
    failStreak,            \* history: connection attempts in a row without a successful open
    closeStreak,           \* history: attempts in a row that closed with a retryable code
    manualProbe,           \* history: is the closed socket the first failure after manualReconnect
    disabledWithRetryPending \* history: the last disable found a retry timer pending

vars == << enabled, phase, mountedRef, telemetry, isConnected, error,
           reconnectAttempt, wsRef, detached, shouldReconnectRef,
           reconnectTimerRef, retryPending, pingIntervalRef, activePings,
           connectionAttemptRef, initTimer, manualTimers, manualBlocked,
           pendingParse, token, constructorThrows, ticking, notifiedInTick, pingSentOn, userDisconnected, lastReceived,
           pageTelemetry, rafRef, rafPending, rafLastId, effectCleanup,
           droneCenter, lastValid, lastNotify, failStreak, closeStreak, manualProbe, disabledWithRetryPending >>

\* wsRef.current = null
NoSocket ==
    [readyState |-> "NONE", attempt |-> 0, opened |-> FALSE, origin |-> "none",
     afterFailure |-> FALSE, closeCode |-> 0, urlToken |-> ""]
\* new WebSocket(wsUrl), with the currentAttempt its handlers close over.
\* History: origin is the timer that ran the connectWebSocket creating it
\* ("mount", "enable", "retry", "manual"), afterFailure whether attempts
\* that never opened precede it, opened whether its onopen has run,
\* closeCode the code of its close event (0 before it).  urlToken is the
\* token query value of wsUrl.
NewSocket(currentAttempt, origin, afterFailure, tokenRead) ==
    [readyState |-> "CONNECTING", attempt |-> currentAttempt, opened |-> FALSE,
     origin |-> origin, afterFailure |-> afterFailure, closeCode |-> 0,
     urlToken |-> encodeURIComponent(tokenRead)]

NoFrame == [enc |-> "none", text |-> ""]
NoNotify == [frame |-> NoFrame, stale |-> FALSE]
\* manualProbe: "armed" from manualReconnect until the next handled close;
\* "hit" while the socket whose failure was that close is still referenced
ProbeIdle == "idle"
ProbeArmed == "armed"
ProbeHit == "hit"

\* the state as one record, so that a handler can call another
Cur ==
    [ enabled |-> enabled, phase |-> phase, mountedRef |-> mountedRef,
      telemetry |-> telemetry, isConnected |-> isConnected, error |-> error,
      reconnectAttempt |-> reconnectAttempt, wsRef |-> wsRef,
      detached |-> detached, shouldReconnectRef |-> shouldReconnectRef,
      reconnectTimerRef |-> reconnectTimerRef, retryPending |-> retryPending,
      pingIntervalRef |-> pingIntervalRef, activePings |-> activePings,
      connectionAttemptRef |-> connectionAttemptRef, initTimer |-> initTimer,
      manualTimers |-> manualTimers, manualBlocked |-> manualBlocked,
      pendingParse |-> pendingParse,
      token |-> token, constructorThrows |-> constructorThrows,
      ticking |-> ticking, notifiedInTick |-> notifiedInTick,
      pingSentOn |-> pingSentOn, userDisconnected |-> userDisconnected,
      lastReceived |-> lastReceived,
      pageTelemetry |-> pageTelemetry, rafRef |-> rafRef,
      rafPending |-> rafPending, rafLastId |-> rafLastId,
      effectCleanup |-> effectCleanup, droneCenter |-> droneCenter,
      lastValid |-> lastValid, lastNotify |-> lastNotify, failStreak |-> failStreak,
      closeStreak |-> closeStreak,
      manualProbe |-> manualProbe,
      disabledWithRetryPending |-> disabledWithRetryPending ]

\* the bounds of the model, as a guard on the state an action leads to
WithinBounds(s) ==
    /\ s.connectionAttemptRef <= MaxConnectCalls
    /\ s.manualTimers <= MaxManualTimers
    /\ Cardinality(s.pendingParse) <= MaxPendingParse
    /\ s.detached.live + s.detached.closing <= MaxDetached
    /\ s.rafLastId <= MaxAnimationRequests

Commit(s) ==
    /\ WithinBounds(s)
    /\ enabled' = s.enabled
    /\ phase' = s.phase
    /\ mountedRef' = s.mountedRef
    /\ telemetry' = s.telemetry
    /\ isConnected' = s.isConnected
    /\ error' = s.error
    /\ reconnectAttempt' = s.reconnectAttempt
    /\ wsRef' = s.wsRef
    /\ detached' = s.detached
    /\ shouldReconnectRef' = s.shouldReconnectRef
    /\ reconnectTimerRef' = s.reconnectTimerRef
    /\ retryPending' = s.retryPending
    /\ pingIntervalRef' = s.pingIntervalRef
    /\ activePings' = s.activePings
    /\ connectionAttemptRef' = s.connectionAttemptRef
    /\ initTimer' = s.initTimer
    /\ manualTimers' = s.manualTimers
    /\ manualBlocked' = s.manualBlocked
    /\ pendingParse' = s.pendingParse
    /\ token' = s.token
    /\ constructorThrows' = s.constructorThrows
    /\ ticking' = s.ticking
    /\ notifiedInTick' = s.notifiedInTick
    /\ pingSentOn' = s.pingSentOn
    /\ userDisconnected' = s.userDisconnected
    /\ lastReceived' = s.lastReceived
    /\ pageTelemetry' = s.pageTelemetry
    /\ rafRef' = s.rafRef
    /\ rafPending' = s.rafPending
    /\ rafLastId' = s.rafLastId
    /\ effectCleanup' = s.effectCleanup
    /\ droneCenter' = s.droneCenter
    /\ lastValid' = s.lastValid
    /\ lastNotify' = s.lastNotify
    /\ failStreak' = s.failStreak
    /\ closeStreak' = s.closeStreak
    /\ manualProbe' = s.manualProbe
    /\ disabledWithRetryPending' = s.disabledWithRetryPending

(***************************************************************************)
(* cleanupWebSocket and its parts.                                         *)
(***************************************************************************)
\* reconnectTimerRef.current = null without the clearTimeout
ClearReconnectTimerRefOnly(s) == [s EXCEPT !.reconnectTimerRef = 0]

\* clearTimeout(reconnectTimerRef.current); reconnectTimerRef.current = null
ClearReconnectTimer(s) ==
    IF s.reconnectTimerRef # 0
    THEN [s EXCEPT !.reconnectTimerRef = 0, !.retryPending = FALSE]
    ELSE s

\* pingIntervalRef.current = null without the clearInterval
ClearPingIntervalRefOnly(s) == [s EXCEPT !.pingIntervalRef = FALSE]

\* clearInterval(pingIntervalRef.current); pingIntervalRef.current = null
ClearPingInterval(s) ==
    IF s.pingIntervalRef
    THEN [s EXCEPT !.pingIntervalRef = FALSE, !.activePings = @ - 1]
    ELSE s

\* the suspended onmessage invocations belong to a socket that is no
\* longer wsRef.current
MarkStale(pp) == { [p EXCEPT !.live = FALSE] : p \in pp }

\* ReleaseSocket without the call of close(): the socket stays live
ReleaseSocketNoClose(s) ==
    IF s.wsRef = NoSocket THEN s
    ELSE [s EXCEPT
            !.detached.live =
                IF s.wsRef.readyState \in {"OPEN", "CONNECTING"} THEN @ + 1 ELSE @,
            !.wsRef = NoSocket,
            !.pendingParse = MarkStale(@),
            !.manualProbe = IF @ = ProbeHit THEN ProbeIdle ELSE @]

\* ReleaseSocket without wsRef.current = null: the closed socket stays
\* referenced
ReleaseSocketKeepRef(s) ==
    IF s.wsRef = NoSocket THEN s
    ELSE [s EXCEPT
            !.detached.closing =
                IF s.wsRef.readyState \in {"OPEN", "CONNECTING"} THEN @ + 1 ELSE @,
            !.pendingParse = MarkStale(@)]

\* if (wsRef.current) { handlers = null; close() when OPEN or CONNECTING;
\* wsRef.current = null }
ReleaseSocket(s) ==
    IF s.wsRef = NoSocket THEN s
    ELSE [s EXCEPT
            !.detached.closing =
                IF s.wsRef.readyState \in {"OPEN", "CONNECTING"} THEN @ + 1 ELSE @,
            !.wsRef = NoSocket,
            !.pendingParse = MarkStale(@),
            !.manualProbe = IF @ = ProbeHit THEN ProbeIdle ELSE @]

\* cleanupWebSocket without setIsConnected(false)
cleanupWebSocketKeepConnected(s, clearTelemetry, disableReconnect) ==
    LET s1 == IF disableReconnect THEN [s EXCEPT !.shouldReconnectRef = FALSE] ELSE s
        s4 == ReleaseSocket(ClearPingInterval(ClearReconnectTimer(s1)))
        s6 == IF clearTelemetry
              THEN [s4 EXCEPT !.telemetry = JNull, !.error = ErrNone,
                              !.lastNotify = NoNotify]
              ELSE s4
    IN [s6 EXCEPT !.reconnectAttempt = 0]

cleanupWebSocket(s, clearTelemetry, disableReconnect) ==
    LET s1 == IF disableReconnect THEN [s EXCEPT !.shouldReconnectRef = FALSE] ELSE s
        s2 == ClearReconnectTimer(s1)
        s3 == ClearPingInterval(s2)
        s4 == ReleaseSocket(s3)
        s5 == [s4 EXCEPT !.isConnected = FALSE]
        s6 == IF clearTelemetry
              THEN [s5 EXCEPT !.telemetry = JNull, !.error = ErrNone,
                              !.lastNotify = NoNotify]
              ELSE s5
    IN [s6 EXCEPT !.reconnectAttempt = 0]

\* cleanupWebSocket() with the defaults clearTelemetry = disableReconnect = true
disconnectWebSocket(s) == cleanupWebSocket(s, TRUE, TRUE)

(***************************************************************************)
(* connectWebSocket.  enabledCaptured is the `enabled` the useCallback     *)
(* closure was created with, not the `enabled` of the latest render.       *)
(***************************************************************************)
\* the token check that lets every attempt through
TokenMissingNever(t) == FALSE

\* if (!token)
TokenMissing(t) == t = NoToken

\* the token of the socket in use, in place of a new read
getTokenOfSocket(s) ==
    IF s.wsRef # NoSocket THEN decodeURIComponent(s.wsRef.urlToken) ELSE s.token

\* const token = getToken()
getToken(s) == s.token

connectWebSocket(s, enabledCaptured, origin) ==
    IF ~enabledCaptured \/ ~s.mountedRef THEN s
    ELSE
      LET c == cleanupWebSocket(s, FALSE, FALSE)
          c1 == [c EXCEPT !.shouldReconnectRef = TRUE,
                          !.connectionAttemptRef = @ + 1,
                          !.failStreak = @ + 1]
          \* read after cleanupWebSocket, which does not touch the token
          tokenRead == getToken(s)
      IN IF TokenMissing(tokenRead)
         THEN [c1 EXCEPT !.error = ErrNotAuthenticated, !.closeStreak = 0]
         ELSE IF c1.constructorThrows
         THEN [c1 EXCEPT !.closeStreak = 0]   \* catch: console.error only
         ELSE [c1 EXCEPT !.wsRef = NewSocket(c1.connectionAttemptRef, origin, c.failStreak > 0,
                                                tokenRead)]

(***************************************************************************)
(* The handlers connectWebSocket attaches to the socket it creates.  They  *)
(* are invoked for the socket held in s.wsRef, so `ws !== wsRef.current`   *)
(* is false; cleanupWebSocket detaches them from a released socket.        *)
(***************************************************************************)
\* ws.onopen
OnOpen(s) ==
    IF ~s.mountedRef THEN s
    ELSE
      LET s1 == [s EXCEPT !.isConnected = TRUE, !.error = ErrNone,
                          !.reconnectAttempt = 0,
                          !.wsRef.opened = TRUE, !.failStreak = 0]
          s2 == IF s1.pingIntervalRef
                THEN [s1 EXCEPT !.activePings = @ - 1]
                ELSE s1
      IN [s2 EXCEPT !.pingIntervalRef = TRUE, !.activePings = @ + 1]

\* ws.onerror
OnError(s) ==
    IF ~s.mountedRef THEN s ELSE [s EXCEPT !.error = ErrConnection]

\* the code check without 1008
NonRetryableNormalOnly(code) == code = NormalClosure

\* codes onclose never retries on
NonRetryable(code) == code = NormalClosure \/ code = PolicyViolation

\* the budget check that gives up at the first failure
BudgetExhaustedAlways(currentAttempt) == TRUE

\* the budget check with > in place of >=
BudgetExhaustedOffByOne(currentAttempt) == currentAttempt > maxAttempts

\* currentAttempt >= maxAttempts
BudgetExhausted(currentAttempt) == currentAttempt >= maxAttempts

\* history of onclose: the streak of retryable closes, and whether this is
\* the first failure after a manual reconnect
NoteClose(s, code) ==
    [s EXCEPT
       !.closeStreak = IF NonRetryable(code) THEN 0 ELSE @ + 1,
       !.manualProbe =
           IF @ = ProbeArmed /\ ~NonRetryable(code) THEN ProbeHit ELSE ProbeIdle]

\* ws.onclose, with ev.code = code
OnClose(s, code) ==
    IF ~s.mountedRef THEN s
    ELSE
      LET currentAttempt == s.wsRef.attempt
          s1 == ClearPingInterval([s EXCEPT !.isConnected = FALSE])
      IN IF ~s1.shouldReconnectRef \/ NonRetryable(code)
         THEN NoteClose(s1, code)
         ELSE IF BudgetExhausted(currentAttempt)
         THEN NoteClose([s1 EXCEPT !.error = ErrMaxAttempts], code)
         ELSE
           LET delay == Delay(currentAttempt)
               s2 == [s1 EXCEPT !.reconnectAttempt = currentAttempt]
           IN NoteClose([ClearReconnectTimer(s2) EXCEPT !.reconnectTimerRef = delay,
                                                        !.retryPending = TRUE],
                        code)

\* ws.onmessage after `await parseMessage(event.data)` has resolved;
\* stale tells whether the socket had been released in the meantime
Deliver(s, f, stale) ==
    LET msg == parseMessage(f)
    IN IF Publishes(msg)
       THEN [s EXCEPT !.telemetry = TelemetryDataOf(msg),
                      !.notifiedInTick = IF ~s.ticking THEN @
                                        ELSE IF @ = "none" THEN "one" ELSE "many",
                      !.lastNotify = [frame |-> f, stale |-> stale]]
       ELSE s

(***************************************************************************)
(* TasksPage (src/unnamed/part_003): the position shown on the map.        *)
(* Values of the telemetry object are tagged: a number, a string, NaN,     *)
(* undefined, null, or an object given as a function on its keys.          *)
(***************************************************************************)
VUndefined == [t |-> "undefined"]
VNull == [t |-> "null"]
VNaN == [t |-> "nan"]
VNum(n) == [t |-> "num", n |-> n]
VStr(x) == [t |-> "str", x |-> x]
VObj(f) == [t |-> "obj", f |-> f]

\* value.key and value?.key
Member(value, key) ==
    IF value.t = "obj" /\ key \in DOMAIN value.f THEN value.f[key] ELSE VUndefined

\* a ?? b
Coalesce(a, b) == IF a.t \in {"undefined", "null"} THEN b ELSE a

\* the first of the keys that is neither undefined nor null
RECURSIVE FirstOf(_, _)
FirstOf(value, keys) ==
    IF keys = << >> THEN VUndefined
    ELSE Coalesce(Member(value, Head(keys)), FirstOf(value, Tail(keys)))

\* !value, for the values of the model
Falsy(value) ==
    \/ value.t \in {"undefined", "null", "nan"}
    \/ value.t = "num" /\ value.n = 0
    \/ value.t = "str" /\ value.x = ""

NoLatLng == [lat |-> 999, lng |-> 999]

\* extractLatLng(value): a {lat, lng} or null (NoLatLng)
extractLatLng(value) ==
    IF Falsy(value) THEN NoLatLng
    ELSE
      LET position == Member(value, "position")
          lat == Coalesce(FirstOf(value, <<"lat", "latitude", "Lat", "Latitude">>),
                          IF Falsy(position) THEN VUndefined
                          ELSE FirstOf(position, <<"lat", "latitude">>))
          lon == Coalesce(FirstOf(value, <<"lon", "lng", "longitude", "Lon", "Lng",
                                           "Longitude">>),
                          IF Falsy(position) THEN VUndefined
                          ELSE FirstOf(position, <<"lon", "lng", "longitude">>))
      IN IF lat.t \notin {"num", "nan"} \/ lon.t \notin {"num", "nan"} THEN NoLatLng
         ELSE IF lat.t = "nan" \/ lon.t = "nan" THEN NoLatLng
         ELSE IF lat.n < -90 \/ lat.n > 90 THEN NoLatLng
         ELSE IF lon.n < -180 \/ lon.n > 180 THEN NoLatLng
         ELSE [lat |-> lat.n, lng |-> lon.n]

\* a || b on the results of extractLatLng
OrElse(a, b) == IF a # NoLatLng THEN a ELSE b

\* the `next` of the telemetry effect
NextCenter(tel) ==
    OrElse(extractLatLng(Member(tel, "position")),
      OrElse(extractLatLng(Member(tel, "gps")),
        OrElse(extractLatLng(Member(tel, "home")),
               extractLatLng(tel))))

\* telemetry snapshots the page is rendered with
Snapshots ==
    { VNull,
      VObj([position |-> VObj([lat |-> VNum(10), lon |-> VNum(20)])]),
      VObj([gps |-> VObj([latitude |-> VNum(0), longitude |-> VNum(0)])]),
      VObj([lat |-> VNum(11), lng |-> VNum(21)]),
      VObj([position |-> VObj([lat |-> VStr("10"), lon |-> VNum(20)])]),
      VObj([position |-> VObj([lat |-> VNum(95), lon |-> VNum(20)])]),
      VObj([home |-> VObj([lat |-> VNaN, lon |-> VNum(20)])]),
      VObj([battery |-> VNum(80)]) }

\* the page after its first render: telemetry is null, so the effect
\* returned at `if (!next) return`
PageMounted ==
    /\ pageTelemetry = VNull
    /\ rafRef = 0
    /\ rafPending = {}
    /\ rafLastId = 0
    /\ effectCleanup = FALSE
    /\ droneCenter = NoLatLng
    /\ lastValid = NoLatLng

\* cancelAnimationFrame(id)
CancelFrame(s, id) == [s EXCEPT !.rafPending = {cb \in @ : cb.id # id}]

\* the cleanup the effect returned
TelemetryEffectCleanup(s) ==
    IF s.effectCleanup /\ s.rafRef # 0
    THEN [CancelFrame(s, s.rafRef) EXCEPT !.rafRef = 0]
    ELSE s

\* the effect body
TelemetryEffectBody(s) ==
    LET next == NextCenter(s.pageTelemetry)
    IN IF next = NoLatLng THEN [s EXCEPT !.effectCleanup = FALSE]
       ELSE
         LET s1 == IF s.rafRef # 0 THEN CancelFrame(s, s.rafRef) ELSE s
         IN [s1 EXCEPT !.rafLastId = @ + 1,
                       !.rafRef = s.rafLastId + 1,
                       !.rafPending = @ \cup {[id |-> s.rafLastId + 1, next |-> next]},
                       !.effectCleanup = TRUE,
                       !.lastValid = next]

\* the page renders with a new telemetry object: the cleanup of the
\* previous effect run, then the effect body
TelemetryRender(tel) ==
    /\ tel \in Snapshots
    /\ Commit(TelemetryEffectBody(
                TelemetryEffectCleanup([Cur EXCEPT !.pageTelemetry = tel])))

\* an animation frame: a requested callback runs setDroneCenter(next)
AnimationFrame(cb) ==
    /\ cb \in rafPending
    /\ Commit([Cur EXCEPT !.rafPending = @ \ {cb}, !.droneCenter = cb.next])

(***************************************************************************)
(* Initial state: the component has mounted and the effect of the first    *)
(* render has run, with enabled either false or true.                      *)
(***************************************************************************)
InitWith(tokens, tracking) ==
    /\ enabled \in BOOLEAN
    /\ phase = "mounted"
    /\ mountedRef = TRUE
    /\ telemetry = JNull
    /\ isConnected = FALSE
    /\ error = ErrNone
    /\ reconnectAttempt = 0
    /\ wsRef = NoSocket
    /\ detached = [live |-> 0, closing |-> 0]
    /\ shouldReconnectRef = enabled   \* disconnectWebSocket() ran if disabled
    /\ reconnectTimerRef = 0
    /\ retryPending = FALSE
    /\ pingIntervalRef = FALSE
    /\ activePings = 0
    /\ connectionAttemptRef = 0
    /\ initTimer = IF enabled THEN "mount" ELSE "none"
    /\ manualTimers = 0
    /\ manualBlocked = 0
    /\ pendingParse = {}
    /\ token \in tokens
    /\ constructorThrows \in BOOLEAN
    /\ ticking = FALSE
    /\ notifiedInTick = "none"
    /\ lastReceived = NoFrame
    /\ PageMounted
    /\ lastNotify = NoNotify
    /\ failStreak = 0
    /\ closeStreak = 0
    /\ manualProbe = ProbeIdle
    /\ disabledWithRetryPending = FALSE
    /\ pingSentOn = "none"
    /\ userDisconnected = tracking

Init == InitWith(Tokens, "untracked")

(***************************************************************************)
(* The effect of lines 225-241: its cleanup and its body.                  *)
(***************************************************************************)
\* history: disconnect() was called (v = "yes"), or reconnect() or a
\* change of enabled came after it (v = "no")
NoteUser(s, v) ==
    IF s.userDisconnected = "untracked" THEN s ELSE [s EXCEPT !.userDisconnected = v]

\* return () => { if (timer) clearTimeout(timer); mountedRef.current =
\* false; disconnectWebSocket(); }
EffectCleanup(s) ==
    disconnectWebSocket([s EXCEPT !.initTimer = "none", !.manualBlocked = 0,
                                  !.mountedRef = FALSE])

\* the effect body, run with the `enabled` of the new render
EffectBody(s) ==
    LET s1 == [s EXCEPT !.mountedRef = TRUE]
    IN IF s1.enabled
       THEN [s1 EXCEPT !.initTimer = "enable"]
       ELSE disconnectWebSocket(s1)

\* the parent re-renders the hook with enabled = true
Enable ==
    /\ phase = "mounted"
    /\ ~enabled
    /\ Commit(NoteUser(EffectBody([EffectCleanup(Cur) EXCEPT
                                      !.enabled = TRUE,
                                      !.disabledWithRetryPending = FALSE]),
                       "no"))

\* the parent re-renders the hook with enabled = false
Disable ==
    /\ phase = "mounted"
    /\ enabled
    /\ Commit(NoteUser(EffectBody([EffectCleanup(Cur) EXCEPT
                                      !.enabled = FALSE,
                                      !.disabledWithRetryPending = retryPending]),
                       "no"))

\* the component unmounts: only the cleanup runs
Unmount ==
    /\ phase = "mounted"
    /\ Commit(NoteUser([EffectCleanup(Cur) EXCEPT !.phase = "unmounted"], "no"))

(***************************************************************************)
(* The exposed functions.                                                  *)
(***************************************************************************)
\* reconnect(): manualReconnect of the latest render
ManualReconnect ==
    /\ phase = "mounted"
    /\ enabled
    /\ Commit([NoteUser(disconnectWebSocket([Cur EXCEPT !.connectionAttemptRef = 0]),
                        "no")
                 EXCEPT !.manualTimers = @ + 1,
                        !.manualBlocked = IF initTimer # "none" THEN @ + 1 ELSE @,
                        !.failStreak = 0,
                        !.closeStreak = 0,
                        !.manualProbe = ProbeArmed])

\* disconnect()
Disconnect ==
    /\ phase = "mounted"
    /\ Commit(NoteUser(disconnectWebSocket(Cur), "yes"))

(***************************************************************************)
(* Timers.  All three call a connectWebSocket whose closure has            *)
(* enabled = true: the effect schedules its timer only when enabled,       *)
(* manualReconnect returns early unless enabled, and the retry timer is    *)
(* set by the connectWebSocket that passed its own guard.                  *)
(*                                                                         *)
(* Timeouts fire in the order the event loop guarantees: a timeout fires   *)
(* after every timeout that was set before it with a delay not longer      *)
(* than its own.  The delays are 100 ms (effect), 500 ms (manualReconnect) *)
(* and Delay(n) >= 1000 ms (retry).                                        *)
(***************************************************************************)
\* the 100 ms timeout of the effect fires
InitTimerFire ==
    /\ initTimer # "none"
    /\ Commit(connectWebSocket([Cur EXCEPT !.initTimer = "none", !.manualBlocked = 0],
                               TRUE, initTimer))

\* the backoff timeout set by onclose fires
RetryTimerFire ==
    /\ retryPending
    /\ initTimer = "none"
    /\ manualTimers = 0
    /\ LET s == [Cur EXCEPT !.retryPending = FALSE]
       IN Commit(IF s.mountedRef /\ s.shouldReconnectRef
                 THEN connectWebSocket(s, TRUE, "retry")
                 ELSE s)

\* a 500 ms timeout of manualReconnect fires
ManualTimerFire ==
    /\ manualTimers > manualBlocked
    /\ LET s == [Cur EXCEPT !.manualTimers = @ - 1]
       IN Commit(IF s.mountedRef
                 THEN connectWebSocket(s, TRUE, "manual")
                 ELSE s)

(***************************************************************************)
(* Transport events of the referenced socket.                              *)
(***************************************************************************)
\* the handshake succeeds: readyState becomes OPEN, the open event fires
TransportOpen ==
    /\ wsRef.readyState = "CONNECTING"
    /\ Commit(OnOpen([Cur EXCEPT !.wsRef.readyState = "OPEN"]))

\* the connection fails: readyState becomes CLOSED, the error event and
\* then the close event with code 1006 fire
TransportFail ==
    /\ wsRef.readyState \in {"CONNECTING", "OPEN", "CLOSING"}
    /\ Commit(OnClose(OnError([Cur EXCEPT !.wsRef.readyState = "CLOSED",
                                          !.wsRef.closeCode = AbnormalClosure]),
                      AbnormalClosure))

\* the server closes an open connection: the close event fires
TransportClose(code) ==
    /\ wsRef.readyState \in {"OPEN", "CLOSING"}
    /\ Commit(OnClose([Cur EXCEPT !.wsRef.readyState = "CLOSED",
                                  !.wsRef.closeCode = code], code))

\* the server starts the closing handshake: readyState becomes CLOSING,
\* no event fires yet
TransportClosing ==
    /\ wsRef.readyState = "OPEN"
    /\ Commit([Cur EXCEPT !.wsRef.readyState = "CLOSING"])

\* the sending without the readyState check
PingIntervalFireUnchecked(s) ==
    IF s.wsRef # NoSocket THEN [s EXCEPT !.pingSentOn = s.wsRef.readyState] ELSE s

\* the setInterval callback of onopen: if (wsRef.current?.readyState ===
\* WebSocket.OPEN) wsRef.current.send(ping)
PingIntervalFire(s) ==
    IF s.wsRef.readyState = "OPEN"
    THEN [s EXCEPT !.pingSentOn = s.wsRef.readyState]
    ELSE s

\* 30 s have passed on a keepalive interval that has not been cleared
PingFire ==
    /\ activePings > 0
    /\ Commit(PingIntervalFire(Cur))

\* a message event fires on the open socket; ws.onmessage runs up to
\* `await parseMessage`, and beyond it when the data is not a Blob
MessageEvent(f) ==
    /\ wsRef.readyState = "OPEN"
    /\ IF ~mountedRef THEN Commit(Cur)
       ELSE LET s == [Cur EXCEPT !.lastReceived =
                         IF ticking /\ JSONParse(f.text).ok /\ Publishes(parseMessage(f))
                         THEN f ELSE @]
            IN IF ParseIsDeferred(f)
               THEN /\ [frame |-> f, live |-> TRUE] \notin pendingParse
                    /\ Commit([s EXCEPT !.pendingParse = @ \cup {[frame |-> f, live |-> TRUE]}])
               ELSE Commit(Deliver(s, f, FALSE))

\* data.text() of a Blob resolves and the suspended onmessage resumes
ParseComplete(p) ==
    /\ p \in pendingParse
    /\ Commit(Deliver([Cur EXCEPT !.pendingParse = @ \ {p}], p.frame, ~p.live))

\* a released socket reaches CLOSED; its handlers are detached, so
\* nothing of the hook runs
DetachedClosed ==
    \E r \in {"live", "closing"} :
        /\ detached[r] > 0
        /\ Commit([Cur EXCEPT !.detached[r] = @ - 1])

\* the auth collaborator stores or removes the token
SetToken(t) ==
    /\ t # token
    /\ Commit([Cur EXCEPT !.token = t])

Next ==
    \/ InitTimerFire
    \/ RetryTimerFire
    \/ TransportOpen
    \/ TransportFail
    \/ \E code \in CloseCodes : TransportClose(code)
    \/ \E f \in Frames : MessageEvent(f)
    \/ \E p \in pendingParse : ParseComplete(p)
    \/ DetachedClosed
    \/ Enable
    \/ Disable
    \/ ManualTimerFire
    \/ ManualReconnect
    \/ Disconnect
    \/ Unmount
    \/ \E t \in Tokens : SetToken(t)

Spec == Init /\ [][Next]_vars

(***************************************************************************)
(* The lifecycle without message frames, for the claims about retries,     *)
(* the keepalive, the token and disconnect().                              *)
(***************************************************************************)
\* the retries alone: reconnect() is not called
RetryNext ==
    \/ InitTimerFire
    \/ RetryTimerFire
    \/ TransportOpen
    \/ TransportFail
    \/ \E code \in CloseCodes : TransportClose(code)
    \/ DetachedClosed
    \/ Enable
    \/ Disable
    \/ Disconnect
    \/ Unmount
    \/ \E t \in Tokens : SetToken(t)

RetrySpec == Init /\ [][RetryNext]_vars

\* the timers of the event loop fire: a pending timeout is not delayed
\* forever
RetryFairSpec ==
    /\ RetrySpec
    /\ WF_vars(InitTimerFire)
    /\ WF_vars(RetryTimerFire)

\* with the closing handshake and the keepalive firings of the transport
KeepaliveNext ==
    \/ InitTimerFire
    \/ RetryTimerFire
    \/ TransportOpen
    \/ TransportClosing
    \/ TransportFail
    \/ \E code \in CloseCodes : TransportClose(code)
    \/ PingFire
    \/ DetachedClosed
    \/ Enable
    \/ Disable
    \/ ManualTimerFire
    \/ ManualReconnect
    \/ Disconnect
    \/ Unmount
    \/ \E t \in Tokens : SetToken(t)

KeepaliveSpec == Init /\ [][KeepaliveNext]_vars

\* with three token values
TokenInit == InitWith(SessionTokens, "untracked")

TokenNext ==
    \/ InitTimerFire
    \/ RetryTimerFire
    \/ TransportOpen
    \/ TransportFail
    \/ \E code \in CloseCodes : TransportClose(code)
    \/ DetachedClosed
    \/ Enable
    \/ Disable
    \/ ManualTimerFire
    \/ ManualReconnect
    \/ Disconnect
    \/ Unmount
    \/ \E t \in SessionTokens : SetToken(t)

TokenSpec == TokenInit /\ [][TokenNext]_vars

\* with the record of disconnect() calls
SessionInit == InitWith(Tokens, "no")

SessionNext ==
    \/ InitTimerFire
    \/ RetryTimerFire
    \/ TransportOpen
    \/ TransportFail
    \/ \E code \in CloseCodes : TransportClose(code)
    \/ DetachedClosed
    \/ Enable
    \/ Disable
    \/ ManualTimerFire
    \/ ManualReconnect
    \/ Disconnect
    \/ Unmount
    \/ \E t \in Tokens : SetToken(t)

SessionSpec == SessionInit /\ [][SessionNext]_vars

(***************************************************************************)
(* TasksPage rendered with a sequence of telemetry snapshots; the hook is  *)
(* disabled and at rest.                                                   *)
(***************************************************************************)
PageInit ==
    /\ Init
    /\ ~enabled
    /\ token = "t1"
    /\ ~constructorThrows

PageNext ==
    \/ \E tel \in Snapshots : TelemetryRender(tel)
    \/ \E cb \in rafPending : AnimationFrame(cb)

PageSpec == PageInit /\ [][PageNext]_vars

(***************************************************************************)
(* The open stream: the state after mount, the 100 ms timeout and a        *)
(* successful open, receiving every wire content in every encoding while   *)
(* the consumer's rendering ticks pass.                                    *)
(***************************************************************************)
StreamInit ==
    /\ enabled = TRUE
    /\ phase = "mounted"
    /\ mountedRef = TRUE
    /\ telemetry = JNull
    /\ isConnected = TRUE
    /\ error = ErrNone
    /\ reconnectAttempt = 0
    /\ wsRef = [NewSocket(1, "mount", FALSE, "t1") EXCEPT !.readyState = "OPEN",
                                                    !.opened = TRUE]
    /\ detached = [live |-> 0, closing |-> 0]
    /\ shouldReconnectRef = TRUE
    /\ reconnectTimerRef = 0
    /\ retryPending = FALSE
    /\ pingIntervalRef = TRUE
    /\ activePings = 1
    /\ connectionAttemptRef = 1
    /\ initTimer = "none"
    /\ manualTimers = 0
    /\ manualBlocked = 0
    /\ pendingParse = {}
    /\ token = "t1"
    /\ constructorThrows = FALSE
    /\ ticking = TRUE
    /\ notifiedInTick = "none"
    /\ lastReceived = NoFrame
    /\ PageMounted
    /\ lastNotify = NoNotify
    /\ failStreak = 0
    /\ closeStreak = 0
    /\ manualProbe = ProbeIdle
    /\ disabledWithRetryPending = FALSE
    /\ pingSentOn = "none"
    /\ userDisconnected = "untracked"

\* a rendering tick of the consumer (an animation frame) passes
Tick ==
    /\ notifiedInTick # "none"
    /\ Commit([Cur EXCEPT !.notifiedInTick = "none"])

StreamNext ==
    \/ \E f \in AllFrames : MessageEvent(f)
    \/ \E p \in pendingParse : ParseComplete(p)
    \/ Tick

StreamSpec == StreamInit /\ [][StreamNext]_vars

(***************************************************************************)
(* Claims.                                                                 *)
(***************************************************************************)
\* sockets created by this instance that are CONNECTING or OPEN
LiveSockets ==
    (IF wsRef.readyState \in {"CONNECTING", "OPEN"} THEN 1 ELSE 0) + detached.live

\* C1: at most one WebSocket created by the instance is in CONNECTING or
\* OPEN state, whatever sequence of enable, disable, disconnect,
\* manualReconnect, timer firings and transport events has happened.
C1_AtMostOneLiveSocket == LiveSockets <= 1

\* a new socket is live while the one it superseded is still closing
C1_Witness ==
    /\ wsRef.readyState \in {"CONNECTING", "OPEN"}
    /\ detached.closing > 0

\* C2 (as claimed): after a disable that found a backoff retry timer
\* pending, no WebSocket exists until the client is enabled again.
C2_NoSocketAfterDisableWithRetryPending ==
    (~enabled /\ disabledWithRetryPending) => wsRef = NoSocket

\* C3 (as claimed): while the client is disabled, no WebSocket has been
\* created by an elapsed manual-reconnect delay.
C3_NoManualSocketWhileDisabled ==
    ~enabled => wsRef.origin # "manual"

\* C4 (as claimed): telemetry is never a value set (and passed to
\* onTelemetry) by a message of a socket that had been superseded or
\* released by then.
C4_StaleMessageIgnored == ~lastNotify.stale

\* C5 (as claimed): when a socket that opened after at least one failed
\* attempt closes unexpectedly, the retry is scheduled after delay(1).
C5_DelayResetAfterOpen ==
    (retryPending /\ wsRef.opened /\ wsRef.afterFailure)
        => reconnectTimerRef = Delay(1)

\* C6 (as claimed): "Max reconnection attempts reached" is reported only
\* when 10 attempts in a row have gone without a successful open and
\* without a manual reconnect between them.
C6_MaxOnlyAfterTenFailures ==
    error = ErrMaxAttempts => failStreak >= maxAttempts

\* C7: once 10 attempts in a row have ended in a close with a retryable
\* code, the status reports "Max reconnection attempts reached" and no
\* retry timer is scheduled, so that no 11th socket is created.
C7_BudgetExhaustion ==
    (closeStreak >= maxAttempts /\ wsRef.readyState = "CLOSED")
        => (error = ErrMaxAttempts /\ ~retryPending /\ reconnectTimerRef = 0)

\* the 10th failure in a row has just been handled
C7_Witness ==
    /\ closeStreak = maxAttempts
    /\ wsRef.readyState = "CLOSED"
    /\ wsRef.attempt = maxAttempts

\* C8 (as claimed): the backoff delay computed for the first failed
\* connection after a manualReconnect is delay(1).
C8_DelayResetAfterManual ==
    (manualProbe = ProbeHit /\ retryPending) => reconnectTimerRef = Delay(1)

\* C9 (as claimed): the connection started by enabling the client from
\* the disabled state is attempt 1.
C9_EnableStartsAtAttemptOne ==
    wsRef.origin = "enable" => wsRef.attempt = 1

\* the frame is a keepalive response: the literal token, or JSON for
\* "pong" or for an envelope of type pong
IsKeepaliveFrame(f) ==
    \/ f.text = TxtPong
    \/ (JSONParse(f.text).ok /\ IsPong(JSONParse(f.text).val))

\* C10 (as claimed): telemetry is only ever set (and onTelemetry invoked)
\* for a frame that parses and is not a keepalive response.
C10_OnlyTelemetryFramesPublish ==
    lastNotify # NoNotify
        => (JSONParse(lastNotify.frame.text).ok /\ ~IsKeepaliveFrame(lastNotify.frame))

\* what ws.onmessage does with a frame: "keepalive" (returns at the pong
\* check), "telemetry" with the value handed to setTelemetry and
\* onTelemetry, or "ignored"
Outcome(f) ==
    LET msg == parseMessage(f)
    IN IF IsPong(msg) THEN [class |-> "keepalive", value |-> JNull]
       ELSE IF Publishes(msg)
       THEN [class |-> "telemetry", value |-> TelemetryDataOf(msg)]
       ELSE [class |-> "ignored", value |-> JNull]

\* C11 (as claimed): the telemetry a frame has set is what the same
\* content sets in every transport encoding (string, Blob, ArrayBuffer):
\* the encodings agree on the classification and on the value.
C11_EncodingIndependent ==
    lastNotify # NoNotify
        => \A e \in Encodings :
              Outcome([enc |-> e, text |-> lastNotify.frame.text])
                  = [class |-> "telemetry", value |-> telemetry]

\* the frame carries JSON for an envelope with the given type member
IsEnvelopeOfType(f, type) ==
    JSONParse(f.text).ok /\ TypeOf(JSONParse(f.text).val) = JStr(type)

\* C12 (as claimed): the telemetry set by an envelope of type telemetry
\* is the envelope's data body, never the envelope itself, whatever the
\* body is (null, 0, false and the empty string included).
C12_EnvelopeUnwrapped ==
    (lastNotify # NoNotify /\ IsEnvelopeOfType(lastNotify.frame, "telemetry"))
        => telemetry = DataOf(JSONParse(lastNotify.frame.text).val)

\* the frame carries JSON for an envelope whose type member is neither
\* telemetry nor pong
IsOtherEnvelope(f) ==
    /\ JSONParse(f.text).ok
    /\ TypeOf(JSONParse(f.text).val) \notin {JUndefined, JStr("telemetry"), JStr("pong")}

\* C13 (as claimed): an envelope whose type is neither telemetry nor
\* pong never sets telemetry (and never reaches onTelemetry).
C13_OtherEnvelopeIgnored ==
    lastNotify # NoNotify => ~IsOtherEnvelope(lastNotify.frame)

\* C19 (as claimed): between two rendering ticks the consumers are
\* notified of a telemetry value (setTelemetry and onTelemetry) at most
\* once, however many frames arrive.
C19_OneNotificationPerTick == notifiedInTick # "many"

\* C14: a connection attempt (a run of connectWebSocket past its guard)
\* that finds no token creates no WebSocket, leaves no retry timer
\* scheduled and sets the error "Not authenticated".
C14_NoTokenAttempt ==
    [][(connectionAttemptRef' = connectionAttemptRef + 1 /\ token = NoToken)
          => /\ wsRef' = NoSocket
             /\ LiveSockets' <= LiveSockets
             /\ ~retryPending' /\ reconnectTimerRef' = 0
             /\ error' = ErrNotAuthenticated]_vars

\* an attempt has just found no token
C14_Witness ==
    /\ token = NoToken
    /\ connectionAttemptRef > 0
    /\ wsRef = NoSocket
    /\ error = ErrNotAuthenticated

\* C15: once the current socket's close with code 1000 or 1008 has been
\* handled no retry timer is scheduled, whatever the attempt number; once
\* a close with another code has been handled while reconnecting is
\* allowed and the attempt number is below 10, one retry timer is pending,
\* with the backoff delay of that attempt.
C15_CloseCodePolicy ==
    wsRef.readyState = "CLOSED"
        => /\ wsRef.closeCode \in {1000, 1008}
                => (~retryPending /\ reconnectTimerRef = 0)
           /\ (wsRef.closeCode \notin {1000, 1008} /\ shouldReconnectRef
                  /\ wsRef.attempt < 10)
                => (retryPending /\ reconnectTimerRef = Delay(wsRef.attempt))

\* a socket reached by retries has been closed with the policy code
C15_Witness ==
    /\ wsRef.readyState = "CLOSED"
    /\ wsRef.closeCode = PolicyViolation
    /\ wsRef.origin = "retry"

\* C16 (as claimed): after the server has closed the current socket with
\* code 1008 the status carries an error message, and not the one of
\* budget exhaustion.
C16_PolicyCloseReported ==
    (wsRef.readyState = "CLOSED" /\ wsRef.closeCode = PolicyViolation)
        => error \notin {ErrNone, ErrMaxAttempts}

\* C17 (as claimed): a connection attempt in which new WebSocket throws
\* leaves a retry timer scheduled with the backoff delay of that attempt,
\* as long as the attempt budget is not used up.
C17_ConstructorFailureRetried ==
    [][(/\ connectionAttemptRef' = connectionAttemptRef + 1
        /\ token # NoToken
        /\ constructorThrows
        /\ connectionAttemptRef' < maxAttempts)
          => (retryPending' /\ reconnectTimerRef' = Delay(connectionAttemptRef'))]_vars

\* C18: at most one keepalive interval is active, and one is active only
\* while the current socket has opened and has not closed.
C18_KeepaliveOnlyWhileOpen ==
    /\ activePings <= 1
    /\ activePings = 1 => (wsRef.readyState = "OPEN" /\ wsRef.opened)

\* a socket that had opened was closed by the server, and no keepalive
\* interval is left
C18_Witness ==
    /\ wsRef.readyState = "CLOSED"
    /\ wsRef.opened
    /\ activePings = 0

\* C20: a backoff retry timer is pending only while shouldReconnect is
\* true.
C20_RetryOnlyWhileReconnectAllowed == retryPending => shouldReconnectRef

\* the disable that set shouldReconnect to false found a retry timer
\* pending, and none is pending now
C20_Witness ==
    /\ ~enabled
    /\ disabledWithRetryPending
    /\ ~shouldReconnectRef
    /\ ~retryPending

\* the delays of the claim, written out: 1000 * 2^(n-1) capped at 30000
ClaimedDelay(n) ==
    CASE n = 1 -> 1000
      [] n = 2 -> 2000
      [] n = 3 -> 4000
      [] n = 4 -> 8000
      [] n = 5 -> 16000
      [] OTHER -> 30000

\* C21: a pending retry timer was set after a failed attempt n between 1
\* and 9 and its delay is min(1000 * 2^(n-1), 30000) ms; these delays do
\* not decrease with n and do not exceed 30000; after the close of an
\* attempt numbered 10 or more no delay is computed and no timer is set.
C21_DelayFormula ==
    /\ retryPending
          => /\ wsRef.attempt \in 1..9
             /\ reconnectTimerRef = ClaimedDelay(wsRef.attempt)
             /\ reconnectTimerRef <= 30000
             /\ wsRef.attempt < 9 => reconnectTimerRef <= Delay(wsRef.attempt + 1)
    /\ (wsRef.readyState = "CLOSED" /\ wsRef.attempt >= 10) => reconnectTimerRef = 0

\* the retry after the ninth failed attempt is pending, at the cap
C21_Witness ==
    /\ retryPending
    /\ wsRef.attempt = 9
    /\ reconnectTimerRef = 30000

\* C22: a second disconnect() right after a first changes nothing: the
\* state (the count of close() calls on sockets included) after two calls
\* equals the state after one.
C22_DisconnectIdempotent ==
    LET once == disconnectWebSocket(Cur)
    IN disconnectWebSocket(once) = once

\* disconnect() has just closed a live socket
C22_Witness ==
    /\ enabled
    /\ mountedRef
    /\ wsRef = NoSocket
    /\ ~shouldReconnectRef
    /\ detached.closing > 0
    /\ manualTimers = 0
    /\ initTimer = "none"

\* C24 (as claimed): the reconnect-driven steps (a handled close, a new
\* connection attempt from any timer, a manual reconnect) leave telemetry
\* unchanged.
C24_ReconnectKeepsTelemetry ==
    [][(\/ wsRef'.readyState = "CLOSED" /\ wsRef.readyState # "CLOSED"
        \/ connectionAttemptRef' = connectionAttemptRef + 1
        \/ manualTimers' = manualTimers + 1)
          => telemetry' = telemetry]_vars

\* C28: isConnected is true only while there is a current socket whose
\* open event has been handled and whose close event has not.
C28_ConnectedOnlyWhileOpen ==
    isConnected
        => /\ wsRef # NoSocket
           /\ wsRef.opened
           /\ wsRef.readyState # "CLOSED"
           /\ wsRef.closeCode = 0

\* a socket that had opened has been closed normally and isConnected is
\* false again
C28_Witness ==
    /\ ~isConnected
    /\ wsRef.opened
    /\ wsRef.closeCode = NormalClosure

\* C23 (as claimed): once every received frame has been processed (no
\* decode is in flight), a telemetry set by a JSON frame is the payload
\* of the JSON telemetry frame received last, whatever the encodings of
\* the frames.
C23_LastReceivedWins ==
    (pendingParse = {} /\ lastReceived # NoFrame
       /\ JSONParse(lastNotify.frame.text).ok)
        => telemetry = TelemetryDataOf(parseMessage(lastReceived))

\* the current socket has closed unexpectedly with a retryable code at an
\* attempt below 10, the client is enabled and mounted, reconnecting is
\* allowed and a token is available
RetryDue ==
    /\ wsRef.readyState = "CLOSED"
    /\ wsRef.closeCode \notin {0, 1000, 1008}
    /\ wsRef.attempt < 10
    /\ enabled /\ mountedRef /\ shouldReconnectRef
    /\ token # NoToken

\* a new WebSocket has been created, or a disable, unmount or disconnect
\* has come first, or the token is gone
RetryDone ==
    \/ wsRef.readyState = "CONNECTING"
    \/ ~enabled \/ ~mountedRef \/ ~shouldReconnectRef
    \/ token = NoToken

\* C25: with timers that fire, every unexpected retryable close of the
\* current socket at an attempt below 10, with the client enabled and
\* mounted and a token available, is eventually followed by a new
\* WebSocket, unless a disable or disconnect (or the loss of the token)
\* comes first.
C25_RetryEventuallyConnects == RetryDue ~> RetryDone

\* the retry timer has fired and created a new socket
C25_Witness ==
    /\ wsRef.readyState = "CONNECTING"
    /\ wsRef.origin = "retry"
    /\ enabled
    /\ reconnectTimerRef = 0

\* C26: a ping is only ever sent on wsRef.current (the callback reads the
\* ref when it fires) and only when that socket is OPEN, never on a
\* connecting, closing or closed one.
C26_PingOnlyOnOpenSocket == pingSentOn \in {"none", "OPEN"}

\* a keepalive firing has sent a ping, and the socket is closing now
C26_Witness ==
    /\ pingSentOn = "OPEN"
    /\ wsRef.readyState = "CLOSING"
    /\ activePings = 1

\* a run of connectWebSocket that consumes the pending retry: the retry
\* timer's own firing, or the firing of another timer that supersedes it
IsRetryAttempt ==
    /\ retryPending /\ ~retryPending'
    /\ connectionAttemptRef' = connectionAttemptRef + 1

\* C27: the token is read when the retry fires: without a token the
\* retry creates no WebSocket, schedules no further retry and reports
\* "Not authenticated"; with a token the URL of the new socket carries
\* the token of that moment, also when it differs from the token of the
\* socket that failed.
C27_TokenReadAtRetry ==
    [][IsRetryAttempt
          => /\ token = NoToken
                  => /\ wsRef' = NoSocket
                     /\ ~retryPending' /\ reconnectTimerRef' = 0
                     /\ error' = ErrNotAuthenticated
             /\ (token # NoToken /\ wsRef' # NoSocket)
                  => decodeURIComponent(wsRef'.urlToken) = token]_vars

\* a retry has created a socket whose URL carries the token that needs
\* escaping
C27_Witness ==
    /\ wsRef.origin = "retry"
    /\ wsRef.urlToken = "a%2Fb"
    /\ token = "a/b"

\* C29 (as claimed): from a call of disconnect() until reconnect() is
\* called or enabled changes, no WebSocket exists.
C29_NoSocketAfterDisconnect ==
    userDisconnected = "yes" => wsRef = NoSocket

\* C30 (as claimed): at most one animation-frame callback of the page is
\* pending, and once none is pending droneCenter is the position of the
\* latest telemetry snapshot that carried a valid one, also when later
\* snapshots carried none.
C30_LatestPositionApplied ==
    /\ Cardinality(rafPending) <= 1
    /\ (rafPending = {} /\ lastValid # NoLatLng) => droneCenter = lastValid

====
